---------------------------- MODULE Spec2Model ----------------------------
(*************************************************************************)
(* Lock-in impedance meter firmware (src/lockin-pico.c).                 *)
(*                                                                       *)
(* Four specifications share the variables below:                        *)
(*   Spec      main() and get_input_samples() with sample data; one      *)
(*             start_adc_sampling() call is one step.                    *)
(*   SpecHw    the acquisition loop of get_input_samples() against the   *)
(*             ADC, its FIFO and the DMA channel as concurrent agents,   *)
(*             one sample at a time; samples carry their channel and     *)
(*             the acquisition they were converted in, not a value.      *)
(*   SpecWalk  the phase walk of get_input_samples() for the buffer size *)
(*             the program really has, for every zero_index.             *)
(*   SpecScan  the averages and the zero-crossing scan over every        *)
(*             content of a short buffer.                                *)
(*                                                                       *)
(* C arrays are 0-based; At(buf, k) reads slot k of a TLA+ sequence.     *)
(* A NULL pointer is the empty sequence.                                 *)
(*************************************************************************)
EXTENDS Integers, Sequences, FiniteSets, TLC

\* ----------------------------------------------------------- constants
CLOCK_FREQ_HZ == 270000000
ADC_FREQ_DIVIDER == 2
ADC_FREQ_HZ == CLOCK_FREQ_HZ \div ADC_FREQ_DIVIDER
PWM_FREQ == 500
INPUT_SAMPLE_SIZE == 4
RI == 9500
RS == 100000
\* ADC clocks per conversion, the literal 96.0 of lines 34 and 129
ADC_CLOCKS_PER_SAMPLE == 96
\* microseconds per second, the literal 1000000 of lines 34, 129, 130
USEC == 1000000
\* uint zero_index = -1: the "not found" sentinel (UINT_MAX)
NotFound == -1

\* ------------------------------------------------------------- bounds
\* slots of the capture buffer in Spec and SpecHw (the program has 2813)
ModelCaptureSize == 5
\* slots of the capture buffer in SpecScan
ScanCaptureSize == 7
\* reference-channel samples are drawn from 0..MaxRef (the ADC: 0..4095)
MaxRef == 2
\* input-channel samples are drawn from 0..MaxInput (the ADC: 0..4095)
MaxInput == 1
\* input_iterations passed by main (the program passes 8192)
ModelIterations == 2
\* acquisitions followed in SpecHw
MaxAcq == 3
\* depth of the ADC sample FIFO
FifoDepth == 4

\* ----------------------------------------------------------- helpers
RECURSIVE GCD(_, _)
GCD(a, b) == IF b = 0 THEN a ELSE GCD(b, a % b)

At(buf, k) == buf[k + 1]

\* C integer division truncates toward zero
CDiv(a, b) == IF a >= 0 THEN a \div b ELSE -((-a) \div b)

\* The double 96.0 * 1000000 / ADC_FREQ_HZ (microseconds per conversion) as
\* the exact fraction SampleUsNum / SampleUsDen = 32/45.  Every quantity the
\* code derives from it and truncates (2813.5, x.125, x.25, x.375) is far
\* from an integer boundary, so the rounding of the double cannot change a
\* truncated result.
SampleUsNum ==
    (ADC_CLOCKS_PER_SAMPLE * USEC) \div GCD(ADC_CLOCKS_PER_SAMPLE * USEC, ADC_FREQ_HZ)

SampleUsDen == ADC_FREQ_HZ \div GCD(ADC_CLOCKS_PER_SAMPLE * USEC, ADC_FREQ_HZ)

\* uint adc_capture_buffer_size = ((1000000 / PWM_FREQ) / (96.0 * 1000000 / ADC_FREQ_HZ)) + 1;
\* 1000000 / PWM_FREQ is an int division; the double is truncated to uint.
capture_buffer_size_init ==
    (((USEC \div PWM_FREQ) * SampleUsDen + SampleUsNum) \div SampleUsNum)

\* uint rounded_size = floor(adc_capture_buffer_size / 2) * 2;  (uint division)
rounded_size_of(size) == (size \div 2) * 2

\* double input_sample_interval_us = 1000000 / (INPUT_SAMPLE_SIZE * PWM_FREQ);  (int division)
input_sample_interval_us == USEC \div (INPUT_SAMPLE_SIZE * PWM_FREQ)

\* Positions of the phase walk are fixed-point numbers in units of
\* 1/SampleUsNum slot: sample_index_spacing = 703.125 = 22500/32.
sample_index_spacing == input_sample_interval_us * SampleUsDen

ToFixed(n) == n * SampleUsNum

\* Variant: the position is truncated and an even slot is not shifted.
nearest_odd_sample_unshifted(sample) == sample \div SampleUsNum

\* uint nearest_odd_sample = (uint) sample % 2 != 0 ? sample : (sample + 1);
nearest_odd_sample(sample) ==
    IF (sample \div SampleUsNum) % 2 # 0
        THEN sample \div SampleUsNum
        ELSE (sample + ToFixed(1)) \div SampleUsNum

\* sample = fmod(sample + sample_index_spacing, rounded_size);
next_sample(sample, rounded_size) ==
    (sample + sample_index_spacing) % ToFixed(rounded_size)

\* The INPUT_SAMPLE_SIZE buffer indices read by the loop of lines 191-197.
RECURSIVE WalkFrom(_, _, _)
WalkFrom(sample, rounded_size, n) ==
    IF n = 0 THEN << >>
    ELSE << nearest_odd_sample(sample) >>
         \o WalkFrom(next_sample(sample, rounded_size), rounded_size, n - 1)

walk_indices(zero_index, rounded_size) ==
    WalkFrom(ToFixed(zero_index + 1), rounded_size, INPUT_SAMPLE_SIZE)

\* for (int i = 0; i < rounded_size; i += 2) accumulator += adc_capture_buffer[i + off];
RECURSIVE SumStride(_, _, _, _)
SumStride(buf, rounded_size, k, off) ==
    IF k >= rounded_size THEN 0
    ELSE At(buf, k + off) + SumStride(buf, rounded_size, k + 2, off)

\* uint16_t average = round(accumulator / (rounded_size / 2));
\* a uint division: the quotient is already an integer when round() sees it.
average_of(buf, rounded_size, off) ==
    (SumStride(buf, rounded_size, 0, off) \div (rounded_size \div 2)) % 65536

\* The scan of lines 167-182, from loop index i with current_reference_value.
RECURSIVE ScanFrom(_, _, _, _, _)
ScanFrom(buf, rounded_size, k, current_reference_value, average_ref_) ==
    IF k >= rounded_size THEN NotFound
    ELSE LET previous_reference_value == current_reference_value
             current == At(buf, k)
         IN  IF previous_reference_value < average_ref_ /\ current >= average_ref_
                 THEN k
                 ELSE ScanFrom(buf, rounded_size, k + 2, current, average_ref_)

\* Variant: the scan starts from previous_reference_value = 0 (line 169)
\* instead of the last reference sample.
find_zero_index_from_zero(buf, rounded_size, average_ref_) ==
    ScanFrom(buf, rounded_size, 0, 0, average_ref_)

find_zero_index(buf, rounded_size, average_ref_) ==
    ScanFrom(buf, rounded_size, 0, At(buf, rounded_size - 2), average_ref_)

\* input_samples[j] += (adc_capture_buffer[nearest_odd_sample] - average_input);
accumulate(acc, buf, zero_index_, rounded_size, average_input_) ==
    LET idx == walk_indices(zero_index_, rounded_size)
    IN  [n \in 1..INPUT_SAMPLE_SIZE |-> acc[n] + (At(buf, idx[n]) - average_input_)]

\* input_samples[i] = round(input_samples[i] / input_iterations);
\* an int division: the quotient is already an integer when round() sees it.
finalize_sample(sum, iterations) == CDiv(sum, iterations)

\* complex values are pairs <<real, imaginary>>
get_voltage(samples) ==
    LET quadrature == samples[1] - samples[3]
        inphase == samples[2] - samples[4]
    IN  << inphase, quadrature >>

\* (RI * RS * (dut_voltage - dut_short_voltage)) / (RI + RS * (dut_open_voltage - dut_voltage))
\* kept as the quotient it is: factor * num / den
calculate_result(open_samples, dut_samples_) ==
    LET dut_open_voltage == get_voltage(open_samples)
        dut_short_voltage == << 0, 0 >>
        dut_voltage == get_voltage(dut_samples_)
    IN  [ factor |-> RI * RS,
          num |-> << dut_voltage[1] - dut_short_voltage[1],
                     dut_voltage[2] - dut_short_voltage[2] >>,
          den |-> << RI + RS * (dut_open_voltage[1] - dut_voltage[1]),
                     RS * (dut_open_voltage[2] - dut_voltage[2]) >> ]


\* ------------------------------------------------------------- state
VARIABLES
    pc,                       \* the statement the processor executes next
    rc,                       \* main's return value, 0 while it runs
    pwm_enabled,              \* the PWM slice is running (pwm_set_enabled)
    adc_capture_buffer_size,  \* global of line 34
    adc_capture_buffer,       \* global of line 35, << >> when NULL
    success,                  \* main's local
    open_circuit_samples,     \* main's local, << >> when not yet set
    dut_samples,              \* main's local, << >> when not set or freed
    result,                   \* main's local, << >> when not yet computed
    measuring,                \* which call of get_input_samples is active
    input_iterations,         \* get_input_samples' parameter
    i,                        \* its outer loop counter
    input_samples,            \* its accumulators, << >> when NULL
    average_ref,
    average_input,
    zero_index,
    sample,                   \* the phase walk's position (fixed point)
    j,                        \* the phase walk's loop counter
    read_index,               \* the last slot index the processor read
    adc_running,              \* ADC CS.START_MANY (adc_run)
    ainsel,                   \* ADC CS.AINSEL, the next channel to convert
    conv,                     \* the conversion in progress, << >> when idle
    fifo,                     \* the ADC sample FIFO
    dma_busy,                 \* the DMA channel is transferring
    dma_remaining,            \* its remaining transfer count
    dma_write_addr,           \* its write cursor, a slot index
    acq,                      \* history: start_adc_sampling calls so far
    written,                  \* history: slots written since the last trigger
    prompted,                 \* history: main has shown its first prompt
    ack_pending,              \* history: getchar() returned, no measurement since
    acked,                    \* history: the latest measurement had its own getchar()
    opens,                    \* history: open-circuit measurements started
    allocs,                   \* history: capture-buffer allocations so far
    contributed,              \* history: acquisitions accumulated in this call
    sums,                     \* history: the accumulators before finalizing
    returned,                 \* history: the first and the latest sample set
                              \*          get_input_samples returned
    torn                      \* history: a slot was written while being consumed

maindata == << rc, pwm_enabled, adc_capture_buffer_size, adc_capture_buffer,
               success, open_circuit_samples, dut_samples, result, measuring >>

mainvars == << pc, maindata >>

gisvars == << input_iterations, i, input_samples, average_ref, average_input,
              zero_index, sample, j, read_index >>

hwvars == << adc_running, ainsel, conv, fifo, dma_busy, dma_remaining,
             dma_write_addr >>

histvars == << acq, written, prompted, ack_pending, acked, opens, allocs,
              contributed, sums, returned, torn >>

vars == << mainvars, gisvars, hwvars, histvars >>

NULL == << >>

Zeros(n) == [k \in 1..n |-> 0]

\* The parts of the state before anything has run.
ResetMain ==
    /\ rc = 0
    /\ pwm_enabled = FALSE
    /\ success = FALSE
    /\ open_circuit_samples = NULL
    /\ dut_samples = NULL
    /\ result = NULL
    /\ measuring = "none"

ResetGis ==
    /\ input_iterations = 0
    /\ i = 0
    /\ input_samples = NULL
    /\ average_ref = 0
    /\ average_input = 0
    /\ j = 0
    /\ read_index = NotFound

ResetOrigin ==
    /\ zero_index = NotFound
    /\ sample = 0

ResetHw ==
    /\ adc_running = FALSE
    /\ ainsel = 0
    /\ conv = NULL
    /\ fifo = << >>
    /\ dma_busy = FALSE
    /\ dma_write_addr = 0

ResetHist ==
    /\ acq = 0
    /\ written = 0
    /\ prompted = FALSE
    /\ ack_pending = FALSE
    /\ acked = FALSE
    /\ opens = 0
    /\ allocs = 0
    /\ contributed = 0
    /\ sums = NULL
    /\ returned = << >>
    /\ torn = FALSE

\* ---------------------------------------------------------------- main
\* main() is entered with the globals initialised and nothing allocated.
Init ==
    /\ ResetMain /\ ResetGis /\ ResetOrigin /\ ResetHw /\ ResetHist
    /\ pc = "main_init_pwm"
    /\ adc_capture_buffer_size = ModelCaptureSize
    /\ adc_capture_buffer = NULL
    /\ dma_remaining = 0

\* init_pwm(): the slice is enabled and left running.
InitPwm ==
    /\ pc = "main_init_pwm"
    /\ pwm_enabled' = TRUE
    /\ pc' = "main_init_adc"
    /\ UNCHANGED << rc, adc_capture_buffer_size, adc_capture_buffer, success,
                    open_circuit_samples, dut_samples, result, measuring >>
    /\ UNCHANGED << gisvars, hwvars, histvars >>

\* What init_adc() hands back when control reaches its closing brace: the
\* function has no return statement there, and main uses the value.
init_adc_fallthrough == BOOLEAN

\* bool success = init_adc();  calloc succeeds or returns NULL.
InitAdc ==
    /\ pc = "main_init_adc"
    /\ \/ /\ adc_capture_buffer' = NULL
          /\ success' = FALSE
          /\ UNCHANGED << allocs, dma_remaining >>
       \/ /\ adc_capture_buffer' = Zeros(adc_capture_buffer_size)
          /\ allocs' = allocs + 1
          /\ dma_remaining' = adc_capture_buffer_size
          /\ success' \in init_adc_fallthrough
    /\ pc' = "main_check"
    /\ UNCHANGED << rc, pwm_enabled, adc_capture_buffer_size,
                    open_circuit_samples, dut_samples, result, measuring >>
    /\ UNCHANGED << adc_running, ainsel, conv, fifo, dma_busy, dma_write_addr >>
    /\ UNCHANGED << acq, written, prompted, ack_pending, acked, opens, contributed,
                    sums, returned, torn >>
    /\ UNCHANGED gisvars

\* if (!success) return 1;  otherwise lines 258-265: the first prompt.
CheckSuccess ==
    /\ pc = "main_check"
    /\ IF success
          THEN pc' = "main_getchar_open" /\ rc' = rc /\ prompted' = TRUE
          ELSE pc' = "exit" /\ rc' = 1 /\ prompted' = prompted
    /\ UNCHANGED << pwm_enabled, adc_capture_buffer_size, adc_capture_buffer,
                    success, open_circuit_samples, dut_samples, result, measuring >>
    /\ UNCHANGED << acq, written, ack_pending, acked, opens, allocs, contributed,
                    sums, returned, torn >>
    /\ UNCHANGED << gisvars, hwvars >>

\* getchar() of lines 266, 273 and 284 returns; line 286 frees dut_samples.
Getchar ==
    /\ pc \in {"main_getchar_open", "main_getchar_dut", "main_getchar_again"}
    /\ ack_pending' = TRUE
    /\ pc' = "gis_alloc"
    /\ measuring' = IF pc = "main_getchar_open" THEN "open" ELSE "dut"
    /\ dut_samples' = NULL
    /\ UNCHANGED << rc, pwm_enabled, adc_capture_buffer_size, adc_capture_buffer,
                    success, open_circuit_samples, result >>
    /\ UNCHANGED << acq, written, prompted, acked, opens, allocs, contributed,
                    sums, returned, torn >>
    /\ UNCHANGED << gisvars, hwvars >>

\* get_input_samples(8192) is entered: lines 126-150, calloc succeeds or not.
GetInputSamples ==
    /\ pc = "gis_alloc"
    /\ input_iterations' = ModelIterations
    /\ i' = 0
    /\ contributed' = 0
    /\ sums' = NULL
    /\ \/ input_samples' = Zeros(INPUT_SAMPLE_SIZE) /\ pc' = "gis_acquire"
       \/ input_samples' = NULL /\ pc' = "gis_return"
    /\ acked' = ack_pending
    /\ ack_pending' = FALSE
    /\ opens' = IF measuring = "open" THEN opens + 1 ELSE opens
    /\ UNCHANGED << average_ref, average_input, zero_index, sample, j, read_index >>
    /\ UNCHANGED << rc, pwm_enabled, adc_capture_buffer_size, adc_capture_buffer,
                    success, open_circuit_samples, dut_samples, result, measuring >>
    /\ UNCHANGED << acq, written, prompted, allocs, returned, torn >>
    /\ UNCHANGED hwvars

\* The contents one acquisition can leave in the buffer: reference samples
\* in the even slots, input samples in the odd ones.
Captures(size) ==
    [1..size -> 0..(IF MaxRef > MaxInput THEN MaxRef ELSE MaxInput)]

IsCapture(buf) ==
    \A k \in 0..(Len(buf) - 1) :
        At(buf, k) <= (IF k % 2 = 0 THEN MaxRef ELSE MaxInput)

\* start_adc_sampling() as one step: the call blocks until the transfer is
\* complete (SpecHw follows it sample by sample) and returns with every slot
\* of the buffer overwritten.
StartAdcSampling ==
    /\ pc = "gis_acquire"
    /\ \E buf \in Captures(adc_capture_buffer_size) :
          /\ IsCapture(buf)
          /\ adc_capture_buffer' = buf
    /\ pc' = "gis_process"
    /\ UNCHANGED << rc, pwm_enabled, adc_capture_buffer_size, success,
                    open_circuit_samples, dut_samples, result, measuring >>
    /\ UNCHANGED << gisvars, hwvars, histvars >>

\* Lines 156-206 for one acquisition: the averages, the scan, then either
\* "continue" or the phase walk; then i++ and the loop test.
ProcessAcquisition ==
    /\ pc = "gis_process"
    /\ LET rounded_size == rounded_size_of(adc_capture_buffer_size)
           avg_ref == average_of(adc_capture_buffer, rounded_size, 0)
           avg_in == average_of(adc_capture_buffer, rounded_size, 1)
           zero == find_zero_index(adc_capture_buffer, rounded_size, avg_ref)
       IN  /\ average_ref' = avg_ref
           /\ average_input' = avg_in
           /\ zero_index' = zero
           /\ IF zero = NotFound
                 THEN UNCHANGED << input_samples, contributed, read_index >>
                 ELSE /\ input_samples' = accumulate(input_samples, adc_capture_buffer,
                                                     zero, rounded_size, avg_in)
                      /\ contributed' = contributed + 1
                      /\ read_index' = walk_indices(zero, rounded_size)[INPUT_SAMPLE_SIZE]
    /\ i' = i + 1
    /\ pc' = IF i + 1 < input_iterations THEN "gis_acquire" ELSE "gis_finalize"
    /\ UNCHANGED << input_iterations, sample, j >>
    /\ UNCHANGED << acq, written, prompted, ack_pending, acked, opens, allocs, sums,
                    returned, torn >>
    /\ UNCHANGED << maindata, hwvars >>

\* Lines 211-215: the accumulators are divided by input_iterations.
Finalize ==
    /\ pc = "gis_finalize"
    /\ sums' = input_samples
    /\ input_samples' = [n \in 1..INPUT_SAMPLE_SIZE |->
                            finalize_sample(input_samples[n], input_iterations)]
    /\ pc' = "gis_return"
    /\ UNCHANGED << input_iterations, i, average_ref, average_input, zero_index,
                    sample, j, read_index >>
    /\ UNCHANGED << acq, written, prompted, ack_pending, acked, opens, allocs,
                    contributed, returned, torn >>
    /\ UNCHANGED << maindata, hwvars >>

\* Lines 268-270 and 276-278: main takes the returned pointer.
Return ==
    /\ pc = "gis_return"
    /\ returned' = IF Len(returned) < 2
                       THEN Append(returned, input_samples)
                       ELSE << returned[1], input_samples >>
    /\ IF input_samples = NULL
          THEN /\ pc' = "exit"
               /\ rc' = 1
               /\ UNCHANGED << open_circuit_samples, dut_samples >>
          ELSE /\ rc' = rc
               /\ IF measuring = "open"
                     THEN /\ open_circuit_samples' = input_samples
                          /\ dut_samples' = dut_samples
                          /\ pc' = "main_getchar_dut"
                     ELSE /\ dut_samples' = input_samples
                          /\ open_circuit_samples' = open_circuit_samples
                          /\ pc' = "main_result"
    /\ measuring' = "none"
    /\ UNCHANGED << pwm_enabled, adc_capture_buffer_size, adc_capture_buffer,
                    success, result >>
    /\ UNCHANGED << acq, written, prompted, ack_pending, acked, opens, allocs,
                    contributed, sums, torn >>
    /\ UNCHANGED << gisvars, hwvars >>

\* Variant: the two sample sets are passed in the other order.
CalculateResultSwapped ==
    /\ pc = "main_result"
    /\ result' = calculate_result(dut_samples, open_circuit_samples)
    /\ pc' = "main_getchar_again"
    /\ UNCHANGED << rc, pwm_enabled, adc_capture_buffer_size, adc_capture_buffer,
                    success, open_circuit_samples, dut_samples, measuring >>
    /\ UNCHANGED << gisvars, hwvars, histvars >>

\* double complex result = calculate_result(open_circuit_samples, dut_samples);
CalculateResult ==
    /\ pc = "main_result"
    /\ result' = calculate_result(open_circuit_samples, dut_samples)
    /\ pc' = "main_getchar_again"
    /\ UNCHANGED << rc, pwm_enabled, adc_capture_buffer_size, adc_capture_buffer,
                    success, open_circuit_samples, dut_samples, measuring >>
    /\ UNCHANGED histvars
    /\ UNCHANGED << gisvars, hwvars >>

Next ==
    \/ InitPwm
    \/ InitAdc
    \/ CheckSuccess
    \/ Getchar
    \/ GetInputSamples
    \/ StartAdcSampling
    \/ ProcessAcquisition
    \/ Finalize
    \/ Return
    \/ CalculateResult

Spec == Init /\ [][Next]_vars


\* ------------------------------------------------------ the phase walk
\* Line 191 for the buffer the program allocates: the scan has found
\* zero_index, any even index below rounded_size.
InitWalk ==
    /\ ResetMain /\ ResetGis /\ ResetHw /\ ResetHist
    /\ dma_remaining = 0
    /\ pc = "gis_walk"
    /\ adc_capture_buffer_size = capture_buffer_size_init
    /\ adc_capture_buffer = NULL
    /\ \E z \in 0..(rounded_size_of(capture_buffer_size_init) - 1) :
          /\ z % 2 = 0
          /\ zero_index = z
          /\ sample = ToFixed(z + 1)

\* One iteration of the loop of lines 192-197.
WalkStep ==
    /\ pc = "gis_walk"
    /\ j < INPUT_SAMPLE_SIZE
    /\ read_index' = nearest_odd_sample(sample)
    /\ sample' = next_sample(sample, rounded_size_of(adc_capture_buffer_size))
    /\ j' = j + 1
    /\ UNCHANGED << input_iterations, i, input_samples, average_ref, average_input,
                    zero_index >>
    /\ UNCHANGED << mainvars, hwvars, histvars >>

NextWalk == WalkStep

SpecWalk == InitWalk /\ [][NextWalk]_vars

\* ------------------------------------------------------------ the scan
\* Line 156 with any content of a short buffer.
InitScan ==
    /\ ResetMain /\ ResetGis /\ ResetOrigin /\ ResetHw /\ ResetHist
    /\ dma_remaining = 0
    /\ pc = "gis_average"
    /\ adc_capture_buffer_size = ScanCaptureSize
    /\ adc_capture_buffer \in Captures(ScanCaptureSize)
    /\ IsCapture(adc_capture_buffer)

\* Lines 157-164.
ComputeAverages ==
    /\ pc = "gis_average"
    /\ average_ref' = average_of(adc_capture_buffer,
                                 rounded_size_of(adc_capture_buffer_size), 0)
    /\ average_input' = average_of(adc_capture_buffer,
                                   rounded_size_of(adc_capture_buffer_size), 1)
    /\ pc' = "gis_scan"
    /\ UNCHANGED << input_iterations, i, input_samples, zero_index, sample, j,
                    read_index >>
    /\ UNCHANGED << maindata, hwvars, histvars >>

\* Lines 167-191: the scan, then "continue" or the phase origin.
FindZeroCrossing ==
    /\ pc = "gis_scan"
    /\ zero_index' = find_zero_index(adc_capture_buffer,
                                     rounded_size_of(adc_capture_buffer_size),
                                     average_ref)
    /\ IF zero_index' = NotFound
          THEN pc' = "gis_continue" /\ sample' = sample
          ELSE pc' = "gis_walk" /\ sample' = ToFixed(zero_index' + 1)
    /\ UNCHANGED << input_iterations, i, input_samples, average_ref, average_input,
                    j, read_index >>
    /\ UNCHANGED << maindata, hwvars, histvars >>

NextScan == ComputeAverages \/ FindZeroCrossing

SpecScan == InitScan /\ [][NextScan]_vars


\* ------------------------------------------- the sampler and its hardware
\* adc_select_input(REFERENCE_ADC_PIN - ADC_BASE_PIN): ADC input 0 (GPIO 26)
REFERENCE_CHANNEL == 0

INPUT_CHANNEL == REFERENCE_CHANNEL + 1

\* uint input_mask = 1 << (REFERENCE_ADC_PIN - ADC_BASE_PIN) | 1 << (INPUT_ADC_PIN - ADC_BASE_PIN);
input_mask == { REFERENCE_CHANNEL, INPUT_CHANNEL }

\* adc_set_round_robin(input_mask): the enabled channel that follows ch
round_robin_next(ch) ==
    IF \E c \in input_mask : c > ch
        THEN CHOOSE c \in input_mask : c > ch /\ \A d \in input_mask : d > ch => c <= d
        ELSE CHOOSE c \in input_mask : \A d \in input_mask : c <= d

\* a slot calloc zeroed and the engine has not written
NoSample == [ch |-> NotFound, acq |-> 0]

\* the statements at which the processor consumes the capture buffer
ReadingPcs == { "gis_mean", "gis_scan", "gis_walk" }

\* The loop of line 153 is entered for the first time: init_adc() has
\* allocated the buffer and configured (not triggered) the DMA channel, the
\* ADC is idle with an empty FIFO, the PWM runs.
InitHw ==
    /\ ResetOrigin /\ ResetHw /\ ResetHist
    /\ input_iterations = MaxAcq
    /\ i = 0
    /\ input_samples = Zeros(INPUT_SAMPLE_SIZE)
    /\ average_ref = 0
    /\ average_input = 0
    /\ j = 0
    /\ read_index = NotFound
    /\ pc = "sas_select"
    /\ rc = 0
    /\ pwm_enabled = TRUE
    /\ success = TRUE
    /\ open_circuit_samples = NULL
    /\ dut_samples = NULL
    /\ result = NULL
    /\ measuring = "open"
    /\ adc_capture_buffer_size = ModelCaptureSize
    /\ adc_capture_buffer = [k \in 1..ModelCaptureSize |-> NoSample]
    /\ dma_remaining = ModelCaptureSize

\* for (int i = 0; i < input_iterations; i++): i++ and the loop test
loop_target(count, iterations) ==
    IF count + 1 < iterations THEN "sas_select" ELSE "gis_finalize"

\* Variant: the starting channel is not selected again.
SelectInputOmitted ==
    /\ pc = "sas_select"
    /\ acq' = acq + 1
    /\ pc' = "sas_trigger"
    /\ UNCHANGED << written, prompted, ack_pending, acked, opens, allocs, contributed,
                    sums, returned, torn >>
    /\ UNCHANGED << maindata, gisvars, hwvars >>

\* adc_select_input(REFERENCE_ADC_PIN - ADC_BASE_PIN);
SelectInput ==
    /\ pc = "sas_select"
    /\ ainsel' = REFERENCE_CHANNEL
    /\ acq' = acq + 1
    /\ pc' = "sas_trigger"
    /\ UNCHANGED << adc_running, conv, fifo, dma_busy, dma_remaining, dma_write_addr >>
    /\ UNCHANGED << written, prompted, ack_pending, acked, opens, allocs, contributed,
                    sums, returned, torn >>
    /\ UNCHANGED << maindata, gisvars >>

\* dma_channel_set_write_addr(DMA_CHANNEL, adc_capture_buffer, true): the
\* cursor is reset, the count reloaded (line 104) and the channel triggered.
TriggerDma ==
    /\ pc = "sas_trigger"
    /\ dma_write_addr' = 0
    /\ dma_remaining' = adc_capture_buffer_size
    /\ dma_busy' = TRUE
    /\ written' = 0
    /\ pc' = "sas_run"
    /\ UNCHANGED << adc_running, ainsel, conv, fifo >>
    /\ UNCHANGED << acq, prompted, ack_pending, acked, opens, allocs, contributed,
                    sums, returned, torn >>
    /\ UNCHANGED << maindata, gisvars >>

\* adc_run(true);
AdcRun ==
    /\ pc = "sas_run"
    /\ adc_running' = TRUE
    /\ pc' = "sas_wait"
    /\ UNCHANGED << ainsel, conv, fifo, dma_busy, dma_remaining, dma_write_addr >>
    /\ UNCHANGED << maindata, gisvars, histvars >>

\* Variant: the wait returns while the channel is still transferring.
WaitForFinishNonblocking ==
    /\ pc = "sas_wait"
    /\ pc' = "sas_halt"
    /\ UNCHANGED << maindata, gisvars, hwvars, histvars >>

\* dma_channel_wait_for_finish_blocking(DMA_CHANNEL);
WaitForFinish ==
    /\ pc = "sas_wait"
    /\ ~dma_busy
    /\ pc' = "sas_halt"
    /\ UNCHANGED << maindata, gisvars, hwvars, histvars >>

\* adc_run(false): no new conversion starts, the one in progress completes.
AdcHalt ==
    /\ pc = "sas_halt"
    /\ adc_running' = FALSE
    /\ pc' = "sas_drain"
    /\ UNCHANGED << ainsel, conv, fifo, dma_busy, dma_remaining, dma_write_addr >>
    /\ UNCHANGED << maindata, gisvars, histvars >>

\* adc_fifo_drain(): waits for the conversion in progress, empties the FIFO;
\* start_adc_sampling() returns and the loop of line 159 begins.
FifoDrain ==
    /\ pc = "sas_drain"
    /\ conv = NULL
    /\ fifo' = << >>
    /\ j' = 0
    /\ pc' = "gis_mean"
    /\ UNCHANGED << input_iterations, i, input_samples, average_ref, average_input,
                    zero_index, sample, read_index >>
    /\ UNCHANGED << adc_running, ainsel, conv, dma_busy, dma_remaining, dma_write_addr >>
    /\ UNCHANGED << maindata, histvars >>

\* One iteration of the loop of lines 159-162: slots j and j + 1 are read.
ReadPair ==
    /\ pc = "gis_mean"
    /\ read_index' = j + 1
    /\ j' = j + 2
    /\ pc' = IF j + 2 < rounded_size_of(adc_capture_buffer_size)
                THEN "gis_mean" ELSE "gis_scan"
    /\ UNCHANGED << input_iterations, i, input_samples, average_ref, average_input,
                    zero_index, sample >>
    /\ UNCHANGED << maindata, hwvars, histvars >>

\* Lines 167-191 on samples without values: the scan reads the last
\* reference slot and the even slots up to the crossing, and ends at any
\* even index or without one ("continue").
ReadScan ==
    /\ pc = "gis_scan"
    /\ \E z \in {NotFound} \cup
                {k \in 0..(rounded_size_of(adc_capture_buffer_size) - 1) : k % 2 = 0} :
          /\ zero_index' = z
          /\ IF z = NotFound
                THEN /\ read_index' = rounded_size_of(adc_capture_buffer_size) - 2
                     /\ i' = i + 1
                     /\ pc' = loop_target(i, input_iterations)
                     /\ UNCHANGED << sample, j >>
                ELSE /\ read_index' = z
                     /\ sample' = ToFixed(z + 1)
                     /\ j' = 0
                     /\ i' = i
                     /\ pc' = "gis_walk"
    /\ UNCHANGED << input_iterations, input_samples, average_ref, average_input >>
    /\ UNCHANGED << maindata, hwvars, histvars >>

\* The phase walk is over: lines 199-206, then i++ and the loop test.
EndIteration ==
    /\ pc = "gis_walk"
    /\ j = INPUT_SAMPLE_SIZE
    /\ i' = i + 1
    /\ pc' = loop_target(i, input_iterations)
    /\ UNCHANGED << input_iterations, input_samples, average_ref, average_input,
                    zero_index, sample, j, read_index >>
    /\ UNCHANGED << maindata, hwvars, histvars >>

\* The ADC starts a conversion of the channel AINSEL names (free-running).
AdcStart ==
    /\ adc_running
    /\ conv = NULL
    /\ conv' = [ch |-> ainsel, acq |-> acq]
    /\ UNCHANGED << adc_running, ainsel, fifo, dma_busy, dma_remaining, dma_write_addr >>
    /\ UNCHANGED << mainvars, gisvars, histvars >>

\* The conversion completes: the sample enters the FIFO (adc_fifo_setup,
\* line 80) unless it is full, and round robin advances AINSEL.  A conversion
\* takes 96 ADC clocks and the DMA channel answers a request within a few:
\* the FIFO never overflows while the channel is transferring.
AdcComplete ==
    /\ conv # NULL
    /\ ~(dma_busy /\ Len(fifo) = FifoDepth)
    /\ fifo' = IF Len(fifo) < FifoDepth THEN Append(fifo, conv) ELSE fifo
    /\ ainsel' = round_robin_next(conv.ch)
    /\ conv' = NULL
    /\ UNCHANGED << adc_running, dma_busy, dma_remaining, dma_write_addr >>
    /\ UNCHANGED << mainvars, gisvars, histvars >>

\* The DMA channel, paced by DREQ_ADC (line 93), moves one sample from the
\* FIFO to the slot at its write cursor (lines 88-90, 104).
DmaTransfer ==
    /\ dma_busy
    /\ fifo # << >>
    /\ adc_capture_buffer' = [adc_capture_buffer EXCEPT ![dma_write_addr + 1] = Head(fifo)]
    /\ fifo' = Tail(fifo)
    /\ dma_write_addr' = dma_write_addr + 1
    /\ dma_remaining' = dma_remaining - 1
    /\ dma_busy' = (dma_remaining - 1 > 0)
    /\ written' = written + 1
    /\ torn' = (torn \/ pc \in ReadingPcs)
    /\ UNCHANGED << pc, rc, pwm_enabled, adc_capture_buffer_size, success,
                    open_circuit_samples, dut_samples, result, measuring >>
    /\ UNCHANGED << adc_running, ainsel, conv >>
    /\ UNCHANGED << acq, prompted, ack_pending, acked, opens, allocs, contributed, sums, returned >>
    /\ UNCHANGED gisvars

NextHw ==
    \/ SelectInput
    \/ TriggerDma
    \/ AdcRun
    \/ WaitForFinish
    \/ AdcHalt
    \/ FifoDrain
    \/ ReadPair
    \/ ReadScan
    \/ WalkStep
    \/ EndIteration
    \/ AdcStart
    \/ AdcComplete
    \/ DmaTransfer

SpecHw == InitHw /\ [][NextHw]_vars


\* --------------------------------------------------------------- claims
Min(S) == CHOOSE x \in S : \A y \in S : x <= y

\* the nearest integer to a / b (b > 0), halves away from zero, as round()
RoundNearest(a, b) ==
    IF a >= 0 THEN (2 * a + b) \div (2 * b) ELSE -((2 * (-a) + b) \div (2 * b))

InGetInputSamples ==
    pc \in {"gis_acquire", "gis_process", "gis_finalize", "gis_return"}

\* C1: every buffer index the phase walk reads is an input-channel (odd)
\* slot inside [0, rounded_size), the first of them zero_index + 1, for
\* every even zero_index of the buffer the program allocates.
PhaseWalkReadsInputSlots ==
    (pc = "gis_walk" /\ j > 0) =>
        /\ read_index % 2 = 1
        /\ read_index >= 0
        /\ read_index < rounded_size_of(adc_capture_buffer_size)
        /\ (j = 1 => read_index = zero_index + 1)

\* C1 witness: from the last reference slot the walk has wrapped around and
\* read its fourth slot.
WalkWrappedAround ==
    /\ pc = "gis_walk"
    /\ j = INPUT_SAMPLE_SIZE
    /\ zero_index = rounded_size_of(adc_capture_buffer_size) - 2
    /\ read_index < zero_index
    /\ read_index % 2 = 1

\* the even indices k at which the reference rises through the computed mean,
\* the sample before slot 0 being the last reference sample
RisingCrossings ==
    LET rounded_size == rounded_size_of(adc_capture_buffer_size)
    IN  { k \in 0..(rounded_size - 1) :
            /\ k % 2 = 0
            /\ At(adc_capture_buffer, (k - 2 + rounded_size) % rounded_size) < average_ref
            /\ At(adc_capture_buffer, k) >= average_ref }

CoversPeriod(n) == n * SampleUsNum >= (USEC \div PWM_FREQ) * SampleUsDen

\* C3: the capture-buffer capacity is even and spans at least one excitation
\* period, and so does the number of slots the processing consumes.
CapacityEvenAndCoversPeriod ==
    /\ adc_capture_buffer_size % 2 = 0
    /\ CoversPeriod(adc_capture_buffer_size)
    /\ rounded_size_of(adc_capture_buffer_size) % 2 = 0
    /\ CoversPeriod(rounded_size_of(adc_capture_buffer_size))

\* C4: when get_input_samples returns, exactly input_iterations acquisitions
\* have added their samples to the accumulators.
EveryIterationContributes ==
    (pc = "gis_return" /\ input_samples # NULL) => contributed = input_iterations

\* C5: equal, nonzero open-circuit and DUT voltages give a zero denominator,
\* an impedance of infinite magnitude.
EqualVoltagesGiveInfiniteImpedance ==
    ( /\ pc = "main_getchar_again"
      /\ get_voltage(open_circuit_samples) = get_voltage(dut_samples)
      /\ get_voltage(dut_samples) # << 0, 0 >> )
        => result.den = << 0, 0 >>

\* C6: the processor consumes the capture buffer only while no transfer is
\* in flight and every slot it has read holds a sample of this acquisition;
\* a transfer is in flight only inside start_adc_sampling; no slot was ever
\* written while the buffer was being consumed.
NoReadDuringTransfer ==
    /\ ~torn
    /\ dma_busy => pc \in {"sas_run", "sas_wait"}
    /\ pc \in ReadingPcs =>
          /\ ~dma_busy
          /\ dma_remaining = 0
          /\ (read_index # NotFound => At(adc_capture_buffer, read_index).acq = acq)

\* C6 witness: the second acquisition has been read to the end of its walk.
SecondSnapshotConsumed ==
    /\ pc = "gis_walk"
    /\ j = INPUT_SAMPLE_SIZE
    /\ acq = 2
    /\ written = adc_capture_buffer_size

\* C7: from the return of start_adc_sampling on, the engine has written
\* exactly adc_capture_buffer_size samples from slot 0, every even slot holds
\* a reference sample and every odd slot an input sample, all converted in
\* this acquisition, conversion is halted and the FIFO is empty.
SamplerReturnsAlignedBuffer ==
    pc \in ReadingPcs =>
        /\ written = adc_capture_buffer_size
        /\ dma_write_addr = adc_capture_buffer_size
        /\ \A k \in 0..(adc_capture_buffer_size - 1) :
              At(adc_capture_buffer, k) =
                  [ch |-> IF k % 2 = 0 THEN REFERENCE_CHANNEL ELSE INPUT_CHANNEL,
                   acq |-> acq]
        /\ ~adc_running
        /\ conv = NULL
        /\ fifo = << >>

\* C7 witness: start_adc_sampling has returned a second time, after a
\* transfer of an odd number of samples.
SecondOddAcquisitionReturned ==
    /\ pc = "gis_mean"
    /\ j = 0
    /\ acq = 2
    /\ adc_capture_buffer_size % 2 = 1
    /\ written = adc_capture_buffer_size

\* C8: the excitation runs from before the first acquisition and is never
\* stopped; every measurement follows its own acknowledgment; the
\* open-circuit measurement happens once, before any DUT measurement; every
\* result is computed from the open-circuit set as it was returned and the
\* DUT set returned last.
SessionProtocol ==
    /\ pc # "main_init_pwm" => pwm_enabled
    /\ opens <= 1
    /\ InGetInputSamples => acked /\ pwm_enabled
    /\ ((InGetInputSamples /\ measuring = "dut") \/ dut_samples # NULL \/ result # NULL)
          => (opens = 1 /\ open_circuit_samples # NULL)
    /\ open_circuit_samples # NULL => open_circuit_samples = returned[1]
    /\ pc = "main_getchar_again" =>
          /\ dut_samples = returned[2]
          /\ result = calculate_result(returned[1], returned[2])

\* C8 witness: an impedance has been computed from two different sample sets.
ImpedanceComputed ==
    /\ pc = "main_getchar_again"
    /\ Len(returned) = 2
    /\ returned[1] # returned[2]
    /\ result.num # << 0, 0 >>

\* C9: startup is aborted before any prompt exactly when the capture-buffer
\* allocation failed; after a successful allocation init_adc reports success
\* and the buffer has been allocated once.
StartupAbortsIffAllocationFails ==
    pc \notin {"main_init_pwm", "main_init_adc", "main_check"} =>
        /\ (pc = "exit" /\ ~prompted) <=> (adc_capture_buffer = NULL)
        /\ adc_capture_buffer # NULL => (success /\ allocs = 1)

\* C10: each returned sample is its accumulator divided by input_iterations
\* and rounded to the nearest integer.
FinalizeRoundsToNearest ==
    (pc = "gis_return" /\ sums # NULL) =>
        \A n \in 1..INPUT_SAMPLE_SIZE :
            input_samples[n] = RoundNearest(sums[n], input_iterations)

=============================================================================
